---- MODULE Spec2Model ----
(***************************************************************************)
(* Model of the request/validate pipeline of lab9:                         *)
(*   src/baseloader3.py      BaseDataLoader._get_req, Pair, Stat,          *)
(*                           GetStatsResponse, GetHistoricalDataResponse   *)
(*   src/coinbaseloader3.py  Pair, HistoricalData                          *)
(*                                                                         *)
(* Strings are sequences of one-character strings.  Prices are floats in   *)
(* the source; the model counts them in thousandths (0.005 is 5, 0.01 is   *)
(* 10, 40000.0 is 40000000), which keeps every comparison of the source    *)
(* exact.  The pydantic (v1) field machinery is modelled as it runs: the   *)
(* validators of one field run in order and stop at the first that fails,  *)
(* the fields of a model are all validated, and the errors are collected.  *)
(***************************************************************************)
EXTENDS Integers, Sequences, FiniteSets, TLC

VARIABLES pc, inp, response, out, calls, gets

vars == <<pc, inp, response, out, calls, gets>>

(* ------------------------------------------------------------------ *)
(* Bounds                                                              *)
(* ------------------------------------------------------------------ *)
MaxIdLen == 12
MaxNonUpper == 1
MaxStats == 3
MaxHist == 3
MaxPairIdLen == 4
MaxCalls == 2

(* ------------------------------------------------------------------ *)
(* Values shared by the specifications                                 *)
(* ------------------------------------------------------------------ *)
None == "None"
NoInput == [none |-> TRUE]
NoResponse == [none |-> TRUE]
NoOut == [kind |-> "none"]
NoRecord == [none |-> TRUE]

Range(s) == {s[i] : i \in 1..Len(s)}

(* ------------------------------------------------------------------ *)
(* Characters and strings                                              *)
(* ------------------------------------------------------------------ *)
UpperChars == {"A"}
OtherChars == {"a", "_", "\n"}
Newline == "\n"

\* the character class [A-Z]
IsUpper(c) ==
    c \in {"A", "B", "C", "D", "E", "F", "G", "H", "I", "J", "K", "L", "M",
           "N", "O", "P", "Q", "R", "S", "T", "U", "V", "W", "X", "Y", "Z"}

AllUpper(s) == \A i \in 1..Len(s) : IsUpper(s[i])

RECURSIVE IdsOf(_, _)
IdsOf(n, k) ==
    IF n = 0 THEN {<< >>}
    ELSE {Append(s, c) : s \in IdsOf(n - 1, k), c \in UpperChars}
         \cup (IF k = 0 THEN {}
               ELSE {Append(s, c) : s \in IdsOf(n - 1, k - 1), c \in OtherChars})

PairIds == UNION {IdsOf(n, MaxNonUpper) : n \in 0..MaxIdLen}

(* ------------------------------------------------------------------ *)
(* Stat (baseloader3.py 49-64)                                         *)
(* ------------------------------------------------------------------ *)
PriceFloor == 10

\* re.match of ^[A-Z]{3,5}[A-Z]{3,5}$ : some split into two groups of 3..5
\* uppercase letters, ending at the end of the string or just before a
\* final newline (Python's $ without MULTILINE).
AtEnd(s, n) == n = Len(s) \/ (n = Len(s) - 1 /\ s[Len(s)] = Newline)

\* the pattern with both groups greedy and no backtracking
RegexMatchGreedy(s) ==
    LET UpTo(from, most) ==
            CHOOSE n \in 0..most :
                /\ \A i \in 1..n : from + i <= Len(s) /\ IsUpper(s[from + i])
                /\ (n = most \/ from + n + 1 > Len(s) \/ ~IsUpper(s[from + n + 1]))
        i == UpTo(0, 5)
        j == UpTo(i, 5)
    IN i >= 3 /\ j >= 3 /\ AtEnd(s, i + j)

\* the pattern with \Z in place of $
RegexMatchStrictEnd(s) ==
    \E i \in 3..5 : \E j \in 3..5 :
        /\ i + j = Len(s)
        /\ \A p \in 1..(i + j) : IsUpper(s[p])

RegexMatch(s) ==
    \E i \in 3..5 : \E j \in 3..5 :
        /\ i + j <= Len(s)
        /\ \A p \in 1..(i + j) : IsUpper(s[p])
        /\ AtEnd(s, i + j)

validate_pair_id(value) == ~(Len(value) < 6 \/ Len(value) > 10)

VolumeGtMutant(value) == value > 0

VolumeGe(value) == value >= 0

PriceGt(value) == value > 0

validate_price(value) == ~(value < PriceFloor)

Holds(rule, value) ==
    CASE rule = "regex" -> RegexMatch(value)
      [] rule = "length" -> validate_pair_id(value)
      [] rule = "ge" -> VolumeGe(value)
      [] rule = "gt" -> PriceGt(value)
      [] rule = "floor" -> validate_price(value)

FieldRules(field) ==
    CASE field = "pair_id" -> <<"regex", "length">>
      [] field = "volume" -> <<"ge">>
      [] field = "price" -> <<"gt", "floor">>

\* ModelField.validate: the validators of a field in order, stopping at
\* the first error
FieldErrors(field, value) ==
    LET rules == FieldRules(field)
        failing == {i \in 1..Len(rules) : ~Holds(rules[i], value)}
    IN IF failing = {} THEN << >>
       ELSE <<[loc |-> field,
               rule |-> rules[CHOOSE i \in failing : \A j \in failing : i <= j]]>>

\* validation that gives up at the first field in error
StatErrorsFailFast(data) ==
    LET e1 == FieldErrors("pair_id", data.pair_id)
        e2 == FieldErrors("volume", data.volume)
        e3 == FieldErrors("price", data.price)
    IN IF e1 # << >> THEN e1 ELSE IF e2 # << >> THEN e2 ELSE e3

\* validate_model: every field is validated and the errors are collected
StatErrors(data) ==
    FieldErrors("pair_id", data.pair_id)
        \o FieldErrors("volume", data.volume)
        \o FieldErrors("price", data.price)

StatInit(data) ==
    LET errors == StatErrors(data)
    IN IF errors = << >>
       THEN [kind |-> "return", ok |-> TRUE, errors |-> << >>,
             record |-> [pair_id |-> data.pair_id,
                         volume |-> data.volume,
                         price |-> data.price]]
       ELSE [kind |-> "raise", exc |-> "ValidationError", ok |-> FALSE,
             errors |-> errors, record |-> NoRecord]

Volumes == {-100, 0, 123456}
Prices == {-1000, 0, 5, 10, 40000000}

StatInputs == [pair_id : PairIds, volume : Volumes, price : Prices]

InitStat ==
    /\ pc = "input"
    /\ inp \in StatInputs
    /\ response = NoResponse
    /\ out = NoOut
    /\ calls = 0
    /\ gets = 0

StatValidate ==
    /\ pc = "input"
    /\ out' = StatInit(inp)
    /\ pc' = "done"
    /\ UNCHANGED <<inp, response, calls, gets>>

NextStat == StatValidate

SpecStat == InitStat /\ [][NextStat]_vars

(* ------------------------------------------------------------------ *)
(* Properties of Stat                                                  *)
(* ------------------------------------------------------------------ *)
Front(s) == SubSeq(s, 1, Len(s) - 1)

LettersOnly(s) == AllUpper(s) /\ Len(s) >= 6 /\ Len(s) <= 10

Reported(o) == {<<o.errors[i].loc, o.errors[i].rule>> : i \in 1..Len(o.errors)}

\* C2: a Stat input whose pair_id is 6 to 10 uppercase letters, whose volume
\* is >= 0 and whose price is >= 0.01 validates, and the record's pair_id,
\* volume and price are the input's.
C2_ValidStatAccepted ==
    (pc = "done" /\ LettersOnly(inp.pair_id) /\ inp.volume >= 0 /\ inp.price >= 10)
        => /\ out.ok
           /\ out.record.pair_id = inp.pair_id
           /\ out.record.volume = inp.volume
           /\ out.record.price = inp.price

C2_Witness ==
    /\ pc = "done"
    /\ Len(inp.pair_id) = 7 /\ AllUpper(inp.pair_id)
    /\ inp.volume = 0 /\ inp.price = 10
    /\ out.ok /\ out.record.price = 10

\* C3: a Stat input that violates one constraint (a lowercase letter or an
\* underscore in pair_id, or volume < 0, or price < 0.01) while the other two
\* fields are valid fails validation with exactly one reported violation,
\* which names the violated field and a rule that field's value breaks.
C3_SingleViolationNamed ==
    pc = "done" =>
        /\ ((\E i \in 1..Len(inp.pair_id) : inp.pair_id[i] \in {"a", "_"})
                /\ inp.volume >= 0 /\ inp.price >= 10)
             => (~out.ok /\ out.errors = <<[loc |-> "pair_id", rule |-> "regex"]>>)
        /\ (LettersOnly(inp.pair_id) /\ inp.volume < 0 /\ inp.price >= 10)
             => (~out.ok /\ out.errors = <<[loc |-> "volume", rule |-> "ge"]>>)
        /\ (LettersOnly(inp.pair_id) /\ inp.volume >= 0 /\ inp.price < 10)
             => (~out.ok /\ out.errors =
                    <<[loc |-> "price",
                       rule |-> IF inp.price <= 0 THEN "gt" ELSE "floor"]>>)

C3_Witness ==
    /\ pc = "done"
    /\ Len(inp.pair_id) = 7
    /\ \E i \in 1..Len(inp.pair_id) : inp.pair_id[i] = "_"
    /\ inp.volume = 123456 /\ inp.price = 40000000
    /\ out.errors = <<[loc |-> "pair_id", rule |-> "regex"]>>

\* the constraints of Stat an input violates, each taken on its own
Violated(d) ==
    {<<"pair_id", "regex">> : x \in {1} \cap (IF RegexMatch(d.pair_id) THEN {} ELSE {1})}
    \cup {<<"pair_id", "length">> :
            x \in {1} \cap (IF Len(d.pair_id) >= 6 /\ Len(d.pair_id) <= 10 THEN {} ELSE {1})}
    \cup {<<"volume", "ge">> : x \in {1} \cap (IF d.volume >= 0 THEN {} ELSE {1})}
    \cup {<<"price", "gt">> : x \in {1} \cap (IF d.price > 0 THEN {} ELSE {1})}
    \cup {<<"price", "floor">> : x \in {1} \cap (IF d.price >= 10 THEN {} ELSE {1})}

C10_LengthCheckRedundant ==
    pc = "done" =>
        /\ (<<"pair_id", "regex">> \notin Reported(out)
                => (Len(inp.pair_id) >= 6 /\ Len(inp.pair_id) <= 10))
        /\ <<"pair_id", "length">> \notin Reported(out)
        /\ (LettersOnly(inp.pair_id) => <<"pair_id", "regex">> \notin Reported(out))

\* C10 amended: the pattern accepts exactly the strings of 6 to 10 uppercase
\* letters, alone or followed by one final newline; validate_pair_id rejects
\* a value that passed the regex exactly when it is ten uppercase letters
\* followed by a newline (length 11).
C10_LengthCheckAlmostRedundant ==
    pc = "done" =>
        /\ (<<"pair_id", "regex">> \notin Reported(out))
              <=> \/ LettersOnly(inp.pair_id)
                  \/ /\ Len(inp.pair_id) >= 1
                     /\ inp.pair_id[Len(inp.pair_id)] = "\n"
                     /\ LettersOnly(Front(inp.pair_id))
        /\ (<<"pair_id", "length">> \in Reported(out))
              <=> /\ Len(inp.pair_id) = 11
                  /\ inp.pair_id[11] = "\n"
                  /\ AllUpper(Front(inp.pair_id))

C10_Witness ==
    /\ pc = "done"
    /\ Len(inp.pair_id) = 11
    /\ out.errors = <<[loc |-> "pair_id", rule |-> "length"]>>

(* ------------------------------------------------------------------ *)
(* GetStatsResponse (baseloader3.py 66-67, test data 107-120)          *)
(* ------------------------------------------------------------------ *)
BTCUSD == <<"B", "T", "C", "U", "S", "D">>
ETHUSD == <<"E", "T", "H", "U", "S", "D">>
BTC_USD == <<"B", "T", "C", "_", "U", "S", "D">>

valid_data ==
    [stats |-> <<[pair_id |-> BTCUSD, volume |-> 123456, price |-> 40000000],
                 [pair_id |-> ETHUSD, volume |-> 78910, price |-> 2500500]>>]

invalid_data ==
    [stats |-> <<[pair_id |-> BTC_USD, volume |-> 123456, price |-> 40000000],
                 [pair_id |-> ETHUSD, volume |-> -100, price |-> 2500500],
                 [pair_id |-> BTCUSD, volume |-> 78910, price |-> 5]>>]

SampleStats == Range(valid_data.stats) \cup Range(invalid_data.stats)

StatsInputs ==
    UNION {[stats : [1..n -> SampleStats]] : n \in 0..MaxStats}

\* the errors of the elements i..Len(stats), each under its index
RECURSIVE ItemErrors(_, _)
ItemErrors(stats, i) ==
    IF i > Len(stats) THEN << >>
    ELSE LET errs == StatErrors(stats[i])
         IN [k \in 1..Len(errs) |->
                [loc |-> <<"stats", i, errs[k].loc>>, rule |-> errs[k].rule]]
            \o ItemErrors(stats, i + 1)

RECURSIVE ValidOnly(_)
ValidOnly(stats) ==
    IF stats = << >> THEN << >>
    ELSE (IF StatInit(Head(stats)).ok THEN <<StatInit(Head(stats)).record>> ELSE << >>)
         \o ValidOnly(Tail(stats))

\* validation that drops the elements in error and keeps the rest
GetStatsResponseLenient(data) ==
    [kind |-> "return", ok |-> TRUE, errors |-> << >>,
     record |-> [stats |-> ValidOnly(data.stats)]]

GetStatsResponseInit(data) ==
    LET errors == ItemErrors(data.stats, 1)
    IN IF errors = << >>
       THEN [kind |-> "return", ok |-> TRUE, errors |-> << >>,
             record |-> [stats |-> [i \in 1..Len(data.stats) |->
                                        StatInit(data.stats[i]).record]]]
       ELSE [kind |-> "raise", exc |-> "ValidationError", ok |-> FALSE,
             errors |-> errors, record |-> NoRecord]

InitStats ==
    /\ pc = "input"
    /\ inp \in StatsInputs
    /\ response = NoResponse
    /\ out = NoOut
    /\ calls = 0
    /\ gets = 0

GetStatsResponseValidate ==
    /\ pc = "input"
    /\ out' = GetStatsResponseInit(inp)
    /\ pc' = "done"
    /\ UNCHANGED <<inp, response, calls, gets>>

NextStats == GetStatsResponseValidate

SpecStats == InitStats /\ [][NextStats]_vars

\* C4: a stats collection with at least one element that is an invalid Stat
\* fails validation as a whole and produces no record, wherever the valid
\* elements are; a collection is accepted only if every element is valid,
\* and then the record keeps all elements in input order.
C4_AllOrNothing ==
    pc = "done" =>
        /\ out.ok <=> (\A i \in 1..Len(inp.stats) : StatInit(inp.stats[i]).ok)
        /\ out.ok => out.record.stats = inp.stats
        /\ ~out.ok => (out.kind = "raise" /\ out.record = NoRecord)

C4_Witness ==
    /\ pc = "done"
    /\ Len(inp.stats) = 3
    /\ StatInit(inp.stats[1]).ok /\ ~StatInit(inp.stats[2]).ok /\ StatInit(inp.stats[3]).ok
    /\ ~out.ok /\ out.record = NoRecord

(* ------------------------------------------------------------------ *)
(* Historical series (coinbaseloader3.py 53-68, baseloader3.py 69-75)  *)
(* ------------------------------------------------------------------ *)
\* An entry is its timestamp and whether all of its fields are present and
\* of the field's type (sample entries: coinbaseloader3.py 26-29).
HistoricalItems ==
    {[timestamp |-> 1625097600, complete |-> TRUE],
     [timestamp |-> 1625011200, complete |-> TRUE],
     [timestamp |-> 1625011200, complete |-> FALSE]}

HistoricalShapes == {"HistoricalData", "GetHistoricalDataResponse"}

HistoricalInputs ==
    UNION {[shape : HistoricalShapes, data : [1..n -> HistoricalItems]] : n \in 0..MaxHist}

RECURSIVE EntryErrors(_, _)
EntryErrors(data, i) ==
    IF i > Len(data) THEN << >>
    ELSE (IF data[i].complete THEN << >>
          ELSE <<[loc |-> <<"data", i>>, rule |-> "type"]>>)
         \o EntryErrors(data, i + 1)

data_must_contain_at_least_one_item(v) == ~(Len(v) < 1)

\* HistoricalData: the elements, then the validator of the list
HistoricalDataInit(data) ==
    LET errors == EntryErrors(data, 1)
    IN IF errors # << >>
       THEN [kind |-> "raise", exc |-> "ValidationError", ok |-> FALSE,
             errors |-> errors, record |-> NoRecord]
       ELSE IF ~data_must_contain_at_least_one_item(data)
       THEN [kind |-> "raise", exc |-> "ValidationError", ok |-> FALSE,
             errors |-> <<[loc |-> <<"data">>, rule |-> "at_least_one_item"]>>,
             record |-> NoRecord]
       ELSE [kind |-> "return", ok |-> TRUE, errors |-> << >>,
             record |-> [data |-> data]]

\* GetHistoricalDataResponse: the elements only
GetHistoricalDataResponseInit(data) ==
    LET errors == EntryErrors(data, 1)
    IN IF errors # << >>
       THEN [kind |-> "raise", exc |-> "ValidationError", ok |-> FALSE,
             errors |-> errors, record |-> NoRecord]
       ELSE [kind |-> "return", ok |-> TRUE, errors |-> << >>,
             record |-> [historical_data |-> data]]

InitHist ==
    /\ pc = "input"
    /\ inp \in HistoricalInputs
    /\ response = NoResponse
    /\ out = NoOut
    /\ calls = 0
    /\ gets = 0

HistoricalDataValidate ==
    /\ pc = "input"
    /\ inp.shape = "HistoricalData"
    /\ out' = HistoricalDataInit(inp.data)
    /\ pc' = "done"
    /\ UNCHANGED <<inp, response, calls, gets>>

GetHistoricalDataResponseValidate ==
    /\ pc = "input"
    /\ inp.shape = "GetHistoricalDataResponse"
    /\ out' = GetHistoricalDataResponseInit(inp.data)
    /\ pc' = "done"
    /\ UNCHANGED <<inp, response, calls, gets>>

NextHist == HistoricalDataValidate \/ GetHistoricalDataResponseValidate

SpecHist == InitHist /\ [][NextHist]_vars

\* C5: every historical-series shape (HistoricalData and
\* GetHistoricalDataResponse) rejects a collection with zero entries and
\* accepts a collection only if it has at least one entry.
C5_EmptyHistoryRejected ==
    pc = "done" => (out.ok => Len(inp.data) >= 1)

(* ------------------------------------------------------------------ *)
(* Pair (baseloader3.py 41-44, coinbaseloader3.py 33-43)               *)
(* ------------------------------------------------------------------ *)
PairChars == {"B", "U", "-"}

PairShapes == {"baseloader3.Pair", "coinbaseloader3.Pair"}

PairInputs ==
    UNION {[shape : PairShapes, id : [1..n -> PairChars],
            base : {<<"B">>}, quote : {<<"U">>}] : n \in 0..MaxPairIdLen}

id_must_contain_dash(v) == \E i \in 1..Len(v) : v[i] = "-"

\* baseloader3.Pair: three str fields, no validator
BasePairInit(data) ==
    [kind |-> "return", ok |-> TRUE, errors |-> << >>,
     record |-> [id |-> data.id, base |-> data.base, quote |-> data.quote]]

\* coinbaseloader3.Pair: id must contain a dash
CoinbasePairInit(data) ==
    IF id_must_contain_dash(data.id)
    THEN [kind |-> "return", ok |-> TRUE, errors |-> << >>,
          record |-> [id |-> data.id, base_currency |-> data.base,
                      quote_currency |-> data.quote]]
    ELSE [kind |-> "raise", exc |-> "ValidationError", ok |-> FALSE,
          errors |-> <<[loc |-> "id", rule |-> "dash"]>>, record |-> NoRecord]

InitPair ==
    /\ pc = "input"
    /\ inp \in PairInputs
    /\ response = NoResponse
    /\ out = NoOut
    /\ calls = 0
    /\ gets = 0

BasePairConstruct ==
    /\ pc = "input"
    /\ inp.shape = "baseloader3.Pair"
    /\ out' = BasePairInit(inp)
    /\ pc' = "done"
    /\ UNCHANGED <<inp, response, calls, gets>>

CoinbasePairConstruct ==
    /\ pc = "input"
    /\ inp.shape = "coinbaseloader3.Pair"
    /\ out' = CoinbasePairInit(inp)
    /\ pc' = "done"
    /\ UNCHANGED <<inp, response, calls, gets>>

NextPair == BasePairConstruct \/ CoinbasePairConstruct

SpecPair == InitPair /\ [][NextPair]_vars

\* C9: every Pair that is constructed, of either Pair definition, has an
\* identifier built from its base and quote symbols with the separator
\* between them (for baseloader3 the plain concatenation also counts); any
\* other identifier is rejected at construction.
C9_PairIdLinksBaseAndQuote ==
    (pc = "done" /\ out.ok) =>
        \/ inp.id = inp.base \o <<"-">> \o inp.quote
        \/ (inp.shape = "baseloader3.Pair" /\ inp.id = inp.base \o inp.quote)

(* ------------------------------------------------------------------ *)
(* BaseDataLoader._get_req and its caller (baseloader3.py 10-37,       *)
(* 85-104)                                                             *)
(* ------------------------------------------------------------------ *)
_base_url == "https://api.example.com"

Resources == {"/get_pairs", "/get_stats", "/get_historical_data"}

ParamChoices == {None, "params"}

StatusCodes == {200, 404, 500}

\* A response body: empty text, text that is no JSON, or the JSON value it
\* decodes to.  has: 'message' is a key of the object, an element of the
\* list or a substring of the string.  hasStats/stats: the object's 'stats'.
Bodies ==
    {[kind |-> k, has |-> FALSE, hasStats |-> FALSE, stats |-> << >>] :
        k \in {"empty", "notjson", "number", "null"}}
    \cup {[kind |-> k, has |-> h, hasStats |-> FALSE, stats |-> << >>] :
            k \in {"object", "list", "string"}, h \in BOOLEAN}
    \cup {[kind |-> "object", has |-> FALSE, hasStats |-> TRUE, stats |-> d.stats] :
            d \in {valid_data, invalid_data}}

\* response.text is truthy
HasText(body) == body.kind # "empty"

\* response.json() raises ValueError
NotDecodable(body) == body.kind \in {"empty", "notjson"}

\* 'message' in json_response: "TypeError" for a value that is no container
ContainsMessage(body) ==
    IF body.kind \in {"number", "null"} THEN "TypeError"
    ELSE IF body.has THEN "True" ELSE "False"

\* json_response['message']: only an object can be subscripted by a string
SubscriptMessage(body) ==
    IF body.kind = "object" THEN "a message" ELSE "TypeError"

Raise(exc, msg) ==
    [kind |-> "raise", exc |-> exc, msg |-> msg, ok |-> FALSE,
     errors |-> << >>, record |-> NoRecord]

\* lines 26-37, given the response to the request; the message is the
\* sequence of the f-string's parts (the literal parts in English)
GetReqOutcome(req_url, resp) ==
    IF resp.status # 200
    THEN LET msg == <<"failed to request data from ", req_url,
                      ", status: ", ToString(resp.status)>>
         IN IF ~HasText(resp.body) THEN Raise("RuntimeError", msg)
            ELSE IF NotDecodable(resp.body) THEN Raise("RuntimeError", msg)
            ELSE IF ContainsMessage(resp.body) = "TypeError" THEN Raise("TypeError", << >>)
            ELSE IF ContainsMessage(resp.body) = "False" THEN Raise("RuntimeError", msg)
            ELSE IF SubscriptMessage(resp.body) = "TypeError" THEN Raise("TypeError", << >>)
            ELSE Raise("RuntimeError",
                       msg \o <<", message: ", SubscriptMessage(resp.body)>>)
    ELSE IF NotDecodable(resp.body) THEN Raise("JSONDecodeError", << >>)
    ELSE [kind |-> "return", value |-> resp.body, ok |-> TRUE,
          errors |-> << >>, record |-> NoRecord]

\* GetStatsResponse(**stats_data), line 97
PayloadOutcome(value) ==
    IF value.kind # "object" THEN Raise("TypeError", << >>)
    ELSE IF ~value.hasStats
    THEN [kind |-> "raise", exc |-> "ValidationError", ok |-> FALSE,
          errors |-> <<[loc |-> <<"stats">>, rule |-> "missing"]>>,
          record |-> NoRecord]
    ELSE GetStatsResponseInit([stats |-> value.stats])

\* the classes an except clause has to name to catch the exception
Bases(exc) ==
    CASE exc = "RuntimeError" -> {"RuntimeError", "Exception"}
      [] exc = "TypeError" -> {"TypeError", "Exception"}
      [] exc = "JSONDecodeError" -> {"JSONDecodeError", "ValueError", "Exception"}
      [] exc = "ValidationError" -> {"ValidationError", "ValueError", "Exception"}

Catches(handler, exc) == handler \in Bases(exc)

InitReq ==
    /\ pc = "idle"
    /\ inp = NoInput
    /\ response = NoResponse
    /\ out = NoOut
    /\ calls = 0
    /\ gets = 0

\* lines 18-25: one requests.get, with or without params
GetReqSend ==
    /\ pc = "idle"
    /\ calls < MaxCalls
    /\ \E resource \in Resources, params \in ParamChoices :
          \/ /\ params # None
             /\ inp' = [url |-> _base_url \o resource, params |-> params]
             /\ gets' = gets + 1
          \/ /\ params = None
             /\ inp' = [url |-> _base_url \o resource, params |-> None]
             /\ gets' = gets + 1
    /\ calls' = calls + 1
    /\ pc' = "awaiting"
    /\ UNCHANGED <<response, out>>

\* a loader that asks again after a failure
GetReqReceiveRetrying ==
    /\ pc = "awaiting"
    /\ \E status \in StatusCodes, body \in Bodies :
          /\ response' = [status |-> status, body |-> body]
          /\ out' = GetReqOutcome(inp.url, response')
          /\ gets' = IF status # 200 THEN gets + 1 ELSE gets
    /\ pc' = "returned"
    /\ UNCHANGED <<inp, calls>>

\* lines 26-37: the response arrives and _get_req returns or raises
GetReqReceive ==
    /\ pc = "awaiting"
    /\ \E status \in StatusCodes, body \in Bodies :
          /\ response' = [status |-> status, body |-> body]
          /\ out' = GetReqOutcome(inp.url, response')
    /\ pc' = "returned"
    /\ UNCHANGED <<inp, calls, gets>>

\* lines 95-98: the caller validates what _get_req returned
ValidatePayload ==
    /\ pc = "returned"
    /\ out.kind = "return"
    /\ out' = PayloadOutcome(out.value)
    /\ pc' = "validated"
    /\ UNCHANGED <<inp, response, calls, gets>>

\* the caller goes on to its next call
CallerResume ==
    /\ pc \in {"returned", "validated"}
    /\ pc' = "idle"
    /\ inp' = NoInput
    /\ response' = NoResponse
    /\ out' = NoOut
    /\ UNCHANGED <<calls, gets>>

NextReq == GetReqSend \/ GetReqReceive \/ ValidatePayload \/ CallerResume

SpecReq == InitReq /\ [][NextReq]_vars

\* C1: for every response whose status is not 200, whatever the body,
\* _get_req raises RuntimeError with the status code in its text; no other
\* error escapes and nothing is returned.
C1_Non200RaisesRequestFailed ==
    (pc = "returned" /\ response.status # 200) =>
        /\ out.kind = "raise"
        /\ out.exc = "RuntimeError"
        /\ ToString(response.status) \in Range(out.msg)

FailureKinds == {"RequestFailed", "MalformedPayload", "ValidationFailed"}

HandlerOf(k) ==
    CASE k = "RequestFailed" -> "RuntimeError"
      [] k = "MalformedPayload" -> "ValueError"
      [] k = "ValidationFailed" -> "ValidationError"

\* C7: a non-200 response, a 200 response whose body is no JSON, and a
\* decoded object that breaks a constraint each fail with their own kind
\* (RuntimeError, ValueError, ValidationError): the failure is caught by the
\* handler of its kind and by the handler of no other kind.
C7_FailureKindsDistinct ==
    LET cause ==
            IF pc = "returned" /\ response.status # 200 THEN "RequestFailed"
            ELSE IF pc = "returned" THEN "MalformedPayload"
            ELSE "ValidationFailed"
    IN (/\ pc \in {"returned", "validated"}
        /\ out.kind = "raise"
        /\ (pc = "validated" => response.body.kind = "object"))
          => \A k \in FailureKinds : Catches(HandlerOf(k), out.exc) <=> (k = cause)

\* C8: every call of _get_req issues exactly one GET, with or without
\* params, on success and on failure: the number of requests sent equals the
\* number of calls made, and a non-200 response is surfaced as a raised
\* error, not answered with another request.
C8_OneGetPerCall ==
    /\ gets = calls
    /\ (pc = "returned" /\ response.status # 200) => out.kind = "raise"

C8_Witness ==
    /\ pc = "returned"
    /\ response.status = 500
    /\ inp.params # None
    /\ out.kind = "raise"
    /\ calls = 2 /\ gets = 2

====
